---- MODULE Spec2Model ----
(***************************************************************************)
(* Model of the gluesample repository: the shared utilities                *)
(* (src/utils/common.py), the two Lambda handler stubs                     *)
(* (src/lambda/release_lock.py, src/lambda/s3_trigger.py) and the Glue     *)
(* batch job stub (src/glue/raw_ingestion_job.py).                         *)
(*                                                                         *)
(* Python values are tagged records, so that text and non-text values are  *)
(* different values and str(), repr() and json.dumps() are real            *)
(* conversions.  Strings of the model contain no quote, backslash or       *)
(* control character, so repr() and json.dumps() need no escaping.         *)
(***************************************************************************)
EXTENDS Integers, Sequences, FiniteSets, TLC

\* ------------------------------------------------------------------ bounds
\* Number of concurrent calls (handler invocations and utility calls).
MaxCalls == 2
\* Number of concurrent runs of the batch job.
MaxRuns == 2

Calls == 1..MaxCalls
Runs == 1..MaxRuns

\* ----------------------------------------------------------- Python values
PyStr(s) == [t |-> "str", s |-> s]
PyInt(i) == [t |-> "int", i |-> i]
PyBool(b) == [t |-> "bool", b |-> b]
PyNone == [t |-> "NoneType"]
\* A dict is its insertion-ordered sequence of <<key, value>> items.
PyDict(items) == [t |-> "dict", items |-> items]
\* The empty set(): a value that str() converts and json.dumps() rejects.
PySet == [t |-> "set"]
\* The slot of a call that has returned nothing (not yet, or it raised).
NoResult == [t |-> "noresult"]

DictKeys(d) == {d.items[i][1] : i \in 1..Len(d.items)}
DictGet(d, k) == LET i == CHOOSE j \in 1..Len(d.items) : d.items[j][1] = k
                 IN  d.items[i][2]

Digits == <<"0", "1", "2", "3", "4", "5", "6", "7", "8", "9">>

RECURSIVE NatToStr(_)
NatToStr(n) == IF n < 10 THEN Digits[n + 1]
               ELSE NatToStr(n \div 10) \o Digits[(n % 10) + 1]

IntToStr(i) == IF i < 0 THEN "-" \o NatToStr(-i) ELSE NatToStr(i)

\* repr(v) and str(v) of the builtin types; they differ on text only.
RECURSIVE py_repr(_)
RECURSIVE ReprItems(_, _)
ReprItems(items, i) ==
    IF i > Len(items) THEN ""
    ELSE (IF i > 1 THEN ", " ELSE "")
         \o "'" \o items[i][1] \o "': " \o py_repr(items[i][2])
         \o ReprItems(items, i + 1)

py_repr(v) ==
    CASE v.t = "str" -> "'" \o v.s \o "'"
      [] v.t = "int" -> IntToStr(v.i)
      [] v.t = "bool" -> IF v.b THEN "True" ELSE "False"
      [] v.t = "NoneType" -> "None"
      [] v.t = "set" -> "set()"
      [] v.t = "dict" -> "{" \o ReprItems(v.items, 1) \o "}"

py_str(v) == IF v.t = "str" THEN v.s ELSE py_repr(v)

\* json.dumps(v) raises TypeError exactly when v holds a value of a type
\* the encoder does not know.
RECURSIVE JsonSerializable(_)
JsonSerializable(v) ==
    CASE v.t \in {"str", "int", "bool", "NoneType"} -> TRUE
      [] v.t = "dict" ->
            \A i \in 1..Len(v.items) : JsonSerializable(v.items[i][2])
      [] OTHER -> FALSE

RECURSIVE json_dumps(_)
RECURSIVE DumpItems(_, _)
DumpItems(items, i) ==
    IF i > Len(items) THEN ""
    ELSE (IF i > 1 THEN ", " ELSE "")
         \o "\"" \o items[i][1] \o "\": " \o json_dumps(items[i][2])
         \o DumpItems(items, i + 1)

json_dumps(v) ==
    CASE v.t = "str" -> "\"" \o v.s \o "\""
      [] v.t = "int" -> IntToStr(v.i)
      [] v.t = "bool" -> IF v.b THEN "true" ELSE "false"
      [] v.t = "NoneType" -> "null"
      [] v.t = "dict" -> "{" \o DumpItems(v.items, 1) \o "}"

\* ------------------------------------------------------------- input sets
StatusCodes == {PyInt(200), PyInt(404)}
Bodies == {PyStr("ok"), PyStr(""), PyInt(-12), PyBool(TRUE), PyNone, PySet,
           PyDict(<<<<"message", PyStr("success")>>>>)}
Events == {PyDict(<<>>),
           PyDict(<<<<"bucket", PyStr("x")>>, <<"key", PyStr("y")>>>>),
           PyDict(<<<<"payload", PySet>>>>)}
Contexts == {PyNone, PyStr("ctx")}
EnvNames == {"STAGE", "UNSET_NAME_X"}
EnvValues == {"", "dev"}
Defaults == {PyNone, PyStr("fallback")}
JobNames == {"raw-ingestion", "nightly"}

VARIABLES pc, fn, args, result, stdout, environ,
          jobPc, argv, jobArgs, jobInit, jobStdout, commits

callVars == <<pc, fn, args, result, stdout>>
jobVars == <<jobPc, argv, jobArgs, jobInit, jobStdout, commits>>
vars == <<pc, fn, args, result, stdout, environ,
          jobPc, argv, jobArgs, jobInit, jobStdout, commits>>

\* ------------------------------------------------ src/utils/common.py
\* A plausible slip: the status code is stringified like the body.
create_lambda_response_str_status(status_code, body) ==
    PyDict(<<<<"statusCode", PyStr(py_str(status_code))>>,
             <<"body", PyStr(py_str(body))>>>>)

\* A plausible slip: the body is passed through without conversion.
create_lambda_response_raw_body(status_code, body) ==
    PyDict(<<<<"statusCode", status_code>>, <<"body", body>>>>)

create_lambda_response(status_code, body) ==
    PyDict(<<<<"statusCode", status_code>>,
             <<"body", IF body.t = "str" THEN body ELSE PyStr(py_str(body))>>>>)

\* A plausible slip: os.environ.get(name) or default, which also replaces
\* a variable that is set to the empty string.
get_environment_variable_or_default(name, default) ==
    IF name \in DOMAIN environ /\ environ[name] # ""
    THEN PyStr(environ[name]) ELSE default

get_environment_variable(name, default) ==
    IF name \in DOMAIN environ THEN PyStr(environ[name]) ELSE default

hello_world_short == PyStr("Hello World")

hello_world == PyStr("Hello World from Common Utils!")

\* ------------------------------------------- src/lambda/release_lock.py
\* A plausible slip: the body dict is returned without json.dumps.
release_lock_response_unserialized ==
    PyDict(<<<<"statusCode", PyInt(200)>>,
             <<"body", PyDict(<<<<"message",
                                  PyStr("Hello World from Release Lock Lambda")>>,
                                <<"lock_released", PyBool(TRUE)>>>>)>>>>)

release_lock_response ==
    PyDict(<<<<"statusCode", PyInt(200)>>,
             <<"body", PyStr(json_dumps(PyDict(
                 <<<<"message", PyStr("Hello World from Release Lock Lambda")>>,
                   <<"lock_released", PyBool(TRUE)>>>>)))>>>>)

\* --------------------------------------------- src/lambda/s3_trigger.py
s3_trigger_response ==
    PyDict(<<<<"statusCode", PyInt(200)>>,
             <<"body", PyStr(json_dumps(PyDict(
                 <<<<"message", PyStr("Hello World from S3 Trigger Lambda")>>,
                   <<"event_processed", PyBool(TRUE)>>>>)))>>>>)

Handlers == {"release_lock.lambda_handler", "s3_trigger.lambda_handler"}

\* The platform (or a caller) starts call c; call ids are handed out in order.
NextCall(c) == pc[c] = "idle" /\ \A d \in 1..(c - 1) : pc[d] # "idle"

Invoke(c, f, event, context) ==
    /\ NextCall(c)
    /\ f \in Handlers
    /\ pc' = [pc EXCEPT ![c] = "L12"]
    /\ fn' = [fn EXCEPT ![c] = f]
    /\ args' = [args EXCEPT ![c] = <<event, context>>]
    /\ UNCHANGED <<result, stdout, environ, jobVars>>

\* release_lock.py line 12
ReleaseLockGreet(c) ==
    /\ fn[c] = "release_lock.lambda_handler" /\ pc[c] = "L12"
    /\ stdout' = [stdout EXCEPT ![c] =
                     Append(@, "Hello World - Release Lock Lambda")]
    /\ pc' = [pc EXCEPT ![c] = "L13"]
    /\ UNCHANGED <<fn, args, result, environ, jobVars>>

\* A plausible slip: json.dumps(event, default=str), which never raises.
ReleaseLockLogEvent_default_str(c) ==
    /\ fn[c] = "release_lock.lambda_handler" /\ pc[c] = "L13"
    /\ stdout' = [stdout EXCEPT ![c] =
                     Append(@, "Received event: "
                               \o (IF JsonSerializable(args[c][1])
                                   THEN json_dumps(args[c][1])
                                   ELSE py_str(args[c][1])))]
    /\ pc' = [pc EXCEPT ![c] = "L15"]
    /\ UNCHANGED <<fn, args, result, environ, jobVars>>

\* release_lock.py line 13: the f-string is evaluated, json.dumps included,
\* before print is called.
ReleaseLockLogEvent(c) ==
    /\ fn[c] = "release_lock.lambda_handler" /\ pc[c] = "L13"
    /\ IF JsonSerializable(args[c][1])
       THEN /\ stdout' = [stdout EXCEPT ![c] =
                   Append(@, "Received event: " \o json_dumps(args[c][1]))]
            /\ pc' = [pc EXCEPT ![c] = "L15"]
       ELSE /\ pc' = [pc EXCEPT ![c] = "faulted"]
            /\ UNCHANGED stdout
    /\ UNCHANGED <<fn, args, result, environ, jobVars>>

\* A plausible slip: a module-level flag shared by the invocations, so that
\* only the first release reports the lock as released.
ReleaseLockReturn_shared_flag(c) ==
    /\ fn[c] = "release_lock.lambda_handler" /\ pc[c] = "L15"
    /\ result' = [result EXCEPT ![c] =
          IF \E d \in Calls \ {c} : fn[d] = fn[c] /\ pc[d] = "returned"
          THEN PyDict(<<<<"statusCode", PyInt(200)>>,
                 <<"body", PyStr(json_dumps(PyDict(
                   <<<<"message", PyStr("Hello World from Release Lock Lambda")>>,
                     <<"lock_released", PyBool(FALSE)>>>>)))>>>>)
          ELSE release_lock_response]
    /\ pc' = [pc EXCEPT ![c] = "returned"]
    /\ UNCHANGED <<fn, args, stdout, environ, jobVars>>

\* release_lock.py lines 15-21
ReleaseLockReturn(c) ==
    /\ fn[c] = "release_lock.lambda_handler" /\ pc[c] = "L15"
    /\ result' = [result EXCEPT ![c] = release_lock_response]
    /\ pc' = [pc EXCEPT ![c] = "returned"]
    /\ UNCHANGED <<fn, args, stdout, environ, jobVars>>

\* s3_trigger.py line 12
S3TriggerGreet(c) ==
    /\ fn[c] = "s3_trigger.lambda_handler" /\ pc[c] = "L12"
    /\ stdout' = [stdout EXCEPT ![c] =
                     Append(@, "Hello World - S3 Trigger Lambda")]
    /\ pc' = [pc EXCEPT ![c] = "L13"]
    /\ UNCHANGED <<fn, args, result, environ, jobVars>>

\* s3_trigger.py line 13
S3TriggerLogEvent(c) ==
    /\ fn[c] = "s3_trigger.lambda_handler" /\ pc[c] = "L13"
    /\ IF JsonSerializable(args[c][1])
       THEN /\ stdout' = [stdout EXCEPT ![c] =
                   Append(@, "Received event: " \o json_dumps(args[c][1]))]
            /\ pc' = [pc EXCEPT ![c] = "L15"]
       ELSE /\ pc' = [pc EXCEPT ![c] = "faulted"]
            /\ UNCHANGED stdout
    /\ UNCHANGED <<fn, args, result, environ, jobVars>>

\* A plausible slip: the flag mirrors whether the event names a bucket.
S3TriggerReturn_inspecting(c) ==
    /\ fn[c] = "s3_trigger.lambda_handler" /\ pc[c] = "L15"
    /\ result' = [result EXCEPT ![c] =
          PyDict(<<<<"statusCode", PyInt(200)>>,
                   <<"body", PyStr(json_dumps(PyDict(
                     <<<<"message", PyStr("Hello World from S3 Trigger Lambda")>>,
                       <<"event_processed",
                         PyBool("bucket" \in DictKeys(args[c][1]))>>>>)))>>>>)]
    /\ pc' = [pc EXCEPT ![c] = "returned"]
    /\ UNCHANGED <<fn, args, stdout, environ, jobVars>>

\* s3_trigger.py lines 15-21
S3TriggerReturn(c) ==
    /\ fn[c] = "s3_trigger.lambda_handler" /\ pc[c] = "L15"
    /\ result' = [result EXCEPT ![c] = s3_trigger_response]
    /\ pc' = [pc EXCEPT ![c] = "returned"]
    /\ UNCHANGED <<fn, args, stdout, environ, jobVars>>

\* ------------------------------------------------------- utility calls
CallCreateLambdaResponse(c, status_code, body) ==
    /\ NextCall(c)
    /\ fn' = [fn EXCEPT ![c] = "create_lambda_response"]
    /\ args' = [args EXCEPT ![c] = <<status_code, body>>]
    /\ result' = [result EXCEPT ![c] = create_lambda_response(status_code, body)]
    /\ pc' = [pc EXCEPT ![c] = "returned"]
    /\ UNCHANGED <<stdout, environ, jobVars>>

CallGetEnvironmentVariable(c, name, default) ==
    /\ NextCall(c)
    /\ fn' = [fn EXCEPT ![c] = "get_environment_variable"]
    /\ args' = [args EXCEPT ![c] = <<PyStr(name), default>>]
    /\ result' = [result EXCEPT ![c] = get_environment_variable(name, default)]
    /\ pc' = [pc EXCEPT ![c] = "returned"]
    /\ UNCHANGED <<stdout, environ, jobVars>>

CallHelloWorld(c) ==
    /\ NextCall(c)
    /\ fn' = [fn EXCEPT ![c] = "hello_world"]
    /\ args' = [args EXCEPT ![c] = <<>>]
    /\ result' = [result EXCEPT ![c] = hello_world]
    /\ pc' = [pc EXCEPT ![c] = "returned"]
    /\ UNCHANGED <<stdout, environ, jobVars>>

\* The process environment that os.environ reads is changed from outside
\* the repository's code: a variable is set or overwritten, or removed.
SetEnv(name, value) ==
    /\ environ' = [n \in DOMAIN environ \cup {name} |->
                      IF n = name THEN value ELSE environ[n]]
    /\ UNCHANGED <<callVars, jobVars>>

DelEnv(name) ==
    /\ name \in DOMAIN environ
    /\ environ' = [n \in DOMAIN environ \ {name} |-> environ[n]]
    /\ UNCHANGED <<callVars, jobVars>>

\* ------------------------------------- src/glue/raw_ingestion_job.py
\* The orchestrator starts run r with the required --JOB_NAME argument.
StartRun(r, name) ==
    /\ jobPc[r] = "notstarted"
    /\ argv' = [argv EXCEPT ![r] = <<"raw_ingestion_job.py", "--JOB_NAME", name>>]
    /\ jobPc' = [jobPc EXCEPT ![r] = "L12"]
    /\ UNCHANGED <<jobArgs, jobInit, jobStdout, commits, callVars, environ>>

\* getResolvedOptions(sys.argv, ['JOB_NAME']): the value that follows the
\* option --JOB_NAME on the command line.
getResolvedOptions(av) ==
    LET i == CHOOSE j \in 1..(Len(av) - 1) : av[j] = "--JOB_NAME"
    IN  PyDict(<<<<"JOB_NAME", PyStr(av[i + 1])>>>>)

\* line 12
JobResolveArgs(r) ==
    /\ jobPc[r] = "L12"
    /\ jobArgs' = [jobArgs EXCEPT ![r] = getResolvedOptions(argv[r])]
    /\ jobPc' = [jobPc EXCEPT ![r] = "L15"]
    /\ UNCHANGED <<argv, jobInit, jobStdout, commits, callVars, environ>>

\* lines 15-18: SparkContext, GlueContext, spark session and Job objects
JobCreateContext(r) ==
    /\ jobPc[r] = "L15"
    /\ jobPc' = [jobPc EXCEPT ![r] = "L19"]
    /\ UNCHANGED <<argv, jobArgs, jobInit, jobStdout, commits, callVars, environ>>

\* A plausible slip: initialisation that rejects a job name and raises.
JobInitialise_rejecting(r) ==
    /\ jobPc[r] = "L19"
    /\ IF DictGet(jobArgs[r], "JOB_NAME") = PyStr("nightly")
       THEN /\ jobPc' = [jobPc EXCEPT ![r] = "failed"]
            /\ UNCHANGED jobInit
       ELSE /\ jobInit' = [jobInit EXCEPT ![r] = DictGet(jobArgs[r], "JOB_NAME")]
            /\ jobPc' = [jobPc EXCEPT ![r] = "L21"]
    /\ UNCHANGED <<argv, jobArgs, jobStdout, commits, callVars, environ>>

\* line 19: job.init(args['JOB_NAME'], args)
JobInitialise(r) ==
    /\ jobPc[r] = "L19"
    /\ jobInit' = [jobInit EXCEPT ![r] = DictGet(jobArgs[r], "JOB_NAME")]
    /\ jobPc' = [jobPc EXCEPT ![r] = "L21"]
    /\ UNCHANGED <<argv, jobArgs, jobStdout, commits, callVars, environ>>

\* line 21
JobPrintGreeting(r) ==
    /\ jobPc[r] = "L21"
    /\ jobStdout' = [jobStdout EXCEPT ![r] =
                        Append(@, "Hello World - Raw Ingestion Glue Job")]
    /\ jobPc' = [jobPc EXCEPT ![r] = "L22"]
    /\ UNCHANGED <<argv, jobArgs, jobInit, commits, callVars, environ>>

\* A plausible slip: the line prints sys.argv[0], the script name.
JobPrintName_script(r) ==
    /\ jobPc[r] = "L22"
    /\ jobStdout' = [jobStdout EXCEPT ![r] = Append(@, "Job Name: " \o argv[r][1])]
    /\ jobPc' = [jobPc EXCEPT ![r] = "L25"]
    /\ UNCHANGED <<argv, jobArgs, jobInit, commits, callVars, environ>>

\* line 22
JobPrintName(r) ==
    /\ jobPc[r] = "L22"
    /\ jobStdout' = [jobStdout EXCEPT ![r] =
          Append(@, "Job Name: " \o py_str(DictGet(jobArgs[r], "JOB_NAME")))]
    /\ jobPc' = [jobPc EXCEPT ![r] = "L25"]
    /\ UNCHANGED <<argv, jobArgs, jobInit, commits, callVars, environ>>

\* line 25: job.commit()
JobCommit(r) ==
    /\ jobPc[r] = "L25"
    /\ commits' = [commits EXCEPT ![r] = @ + 1]
    /\ jobPc' = [jobPc EXCEPT ![r] = "done"]
    /\ UNCHANGED <<argv, jobArgs, jobInit, jobStdout, callVars, environ>>

\* The script of run r, once started, from its first line to its last.
JobRun(r) ==
    \/ JobResolveArgs(r)
    \/ JobCreateContext(r)
    \/ JobInitialise(r)
    \/ JobPrintGreeting(r)
    \/ JobPrintName(r)
    \/ JobCommit(r)

\* ------------------------------------------------------ specifications
InitCalls ==
    /\ pc = [c \in Calls |-> "idle"]
    /\ fn = [c \in Calls |-> "none"]
    /\ args = [c \in Calls |-> <<>>]
    /\ result = [c \in Calls |-> NoResult]
    /\ stdout = [c \in Calls |-> <<>>]
    /\ environ = [n \in {} |-> ""]

InitJob ==
    /\ jobPc = [r \in Runs |-> "notstarted"]
    /\ argv = [r \in Runs |-> <<>>]
    /\ jobArgs = [r \in Runs |-> NoResult]
    /\ jobInit = [r \in Runs |-> NoResult]
    /\ jobStdout = [r \in Runs |-> <<>>]
    /\ commits = [r \in Runs |-> 0]

Init == InitCalls /\ InitJob

\* Concurrent handler invocations, interleaved with calls of the utilities.
Next ==
    \/ \E c \in Calls, f \in Handlers, e \in Events, x \in Contexts :
          Invoke(c, f, e, x)
    \/ \E c \in Calls : ReleaseLockGreet(c)
    \/ \E c \in Calls : ReleaseLockLogEvent(c)
    \/ \E c \in Calls : ReleaseLockReturn(c)
    \/ \E c \in Calls : S3TriggerGreet(c)
    \/ \E c \in Calls : S3TriggerLogEvent(c)
    \/ \E c \in Calls : S3TriggerReturn(c)
    \/ \E c \in Calls :
          CallCreateLambdaResponse(c, PyInt(200),
                                   PyDict(<<<<"message", PyStr("success")>>>>))
    \/ \E c \in Calls :
          CallGetEnvironmentVariable(c, "UNSET_NAME_X", PyStr("fallback"))
    \/ \E c \in Calls : CallHelloWorld(c)

Spec == Init /\ [][Next]_vars

\* Calls of the utilities over all their inputs, in a changing environment.
NextUtils ==
    \/ \E c \in Calls, s \in StatusCodes, b \in Bodies :
          CallCreateLambdaResponse(c, s, b)
    \/ \E c \in Calls, n \in EnvNames, d \in Defaults :
          CallGetEnvironmentVariable(c, n, d)
    \/ \E c \in Calls : CallHelloWorld(c)
    \/ \E n \in EnvNames, v \in EnvValues : SetEnv(n, v)
    \/ \E n \in EnvNames : DelEnv(n)

SpecUtils == Init /\ [][NextUtils]_vars

\* Runs of the batch job.  A started script runs on to its end: each run is
\* its own interpreter process, which nothing in the script suspends.
NextJob ==
    \/ \E r \in Runs, name \in JobNames : StartRun(r, name)
    \/ \E r \in Runs : JobRun(r)

SpecJob == Init /\ [][NextJob]_vars /\ \A r \in Runs : WF_vars(JobRun(r))

\* =============================================================== claims
\* The envelopes and log lines as the specification writes them out.
ExpectedReleaseLockEnvelope ==
    PyDict(<<<<"statusCode", PyInt(200)>>,
             <<"body", PyStr("{\"message\": \"Hello World from Release Lock Lambda\", \"lock_released\": true}")>>>>)

ExpectedS3TriggerEnvelope ==
    PyDict(<<<<"statusCode", PyInt(200)>>,
             <<"body", PyStr("{\"message\": \"Hello World from S3 Trigger Lambda\", \"event_processed\": true}")>>>>)

ExpectedEnvelope(f) ==
    IF f = "release_lock.lambda_handler" THEN ExpectedReleaseLockEnvelope
    ELSE ExpectedS3TriggerEnvelope

GreetingLine(f) ==
    IF f = "release_lock.lambda_handler" THEN "Hello World - Release Lock Lambda"
    ELSE "Hello World - S3 Trigger Lambda"

UploadEvent == PyDict(<<<<"bucket", PyStr("x")>>, <<"key", PyStr("y")>>>>)

HandlerStep(c) ==
    \/ ReleaseLockGreet(c) \/ ReleaseLockLogEvent(c) \/ ReleaseLockReturn(c)
    \/ S3TriggerGreet(c) \/ S3TriggerLogEvent(c) \/ S3TriggerReturn(c)

\* C1 as stated: for every event and context the lock-release handler
\* returns the fixed envelope, so no invocation of it ends without one.
C1_Original ==
    \A c \in Calls : fn[c] = "release_lock.lambda_handler" =>
        /\ pc[c] # "faulted"
        /\ pc[c] = "returned" => result[c] = ExpectedReleaseLockEnvelope

\* C1 amended: for every event that json.dumps can serialize and every
\* context the lock-release handler runs on to return the fixed envelope
\* (status 200, body the JSON text of the message and lock_released true),
\* the same envelope for any two such inputs; only an event that cannot be
\* serialized ends the invocation in a fault.
C1_Amended ==
    \A c \in Calls : fn[c] = "release_lock.lambda_handler" =>
        /\ pc[c] = "returned" => result[c] = ExpectedReleaseLockEnvelope
        /\ pc[c] = "faulted" => ~JsonSerializable(args[c][1])
        /\ JsonSerializable(args[c][1]) /\ pc[c] # "returned" => ENABLED HandlerStep(c)
        /\ \A d \in Calls :
              fn[d] = fn[c] /\ pc[c] = "returned" /\ pc[d] = "returned"
                  => result[d] = result[c]

C1_Witness ==
    /\ fn[1] = "release_lock.lambda_handler" /\ pc[1] = "returned"
    /\ fn[2] = "release_lock.lambda_handler" /\ pc[2] = "returned"
    /\ args[1] = <<PyDict(<<>>), PyNone>>
    /\ args[2] = <<UploadEvent, PyStr("ctx")>>

\* C2 as stated: for every event and context the upload-trigger handler
\* returns the fixed envelope, so no invocation of it ends without one.
C2_Original ==
    \A c \in Calls : fn[c] = "s3_trigger.lambda_handler" =>
        /\ pc[c] # "faulted"
        /\ pc[c] = "returned" => result[c] = ExpectedS3TriggerEnvelope

\* C2 amended: for every event that json.dumps can serialize (whatever its
\* bucket, key or other contents) and every context the upload-trigger
\* handler runs on to return the fixed envelope (status 200, body the JSON
\* text of the message and event_processed true), the same for any two such
\* inputs; only an event that cannot be serialized ends in a fault.
C2_Amended ==
    \A c \in Calls : fn[c] = "s3_trigger.lambda_handler" =>
        /\ pc[c] = "returned" => result[c] = ExpectedS3TriggerEnvelope
        /\ pc[c] = "faulted" => ~JsonSerializable(args[c][1])
        /\ JsonSerializable(args[c][1]) /\ pc[c] # "returned" => ENABLED HandlerStep(c)
        /\ \A d \in Calls :
              fn[d] = fn[c] /\ pc[c] = "returned" /\ pc[d] = "returned"
                  => result[d] = result[c]

C2_Witness ==
    /\ fn[1] = "s3_trigger.lambda_handler" /\ pc[1] = "returned"
    /\ fn[2] = "s3_trigger.lambda_handler" /\ pc[2] = "returned"
    /\ args[1] = <<UploadEvent, PyNone>>
    /\ args[2] = <<PyDict(<<>>), PyStr("ctx")>>

C4_BodyIsText ==
    \A c \in Calls : fn[c] = "create_lambda_response" =>
        LET body == DictGet(result[c], "body")
            arg == args[c][2]
        IN  /\ body.t = "str"
            /\ arg.t = "str" => body = arg
            /\ arg.t # "str" => body = PyStr(py_str(arg))
            /\ arg = PyDict(<<<<"message", PyStr("success")>>>>)
                  => body = PyStr("{'message': 'success'}")
            /\ arg = PyInt(-12) => body = PyStr("-12")
            /\ DictGet(create_lambda_response(args[c][1], body), "body") = body

C4_Witness ==
    /\ fn[1] = "create_lambda_response" /\ args[1][2] = PyStr("ok")
    /\ DictGet(result[1], "body") = PyStr("ok")
    /\ fn[2] = "create_lambda_response"
    /\ args[2][2] = PyDict(<<<<"message", PyStr("success")>>>>)
    /\ DictGet(result[2], "body") = PyStr("{'message': 'success'}")

\* C5: each call of get_environment_variable(name, default) returns the
\* value the variable has in the environment at that moment when it is set
\* and default when it is unset, whatever earlier calls returned, and the
\* call leaves the environment as it was.
C5_LookupIsCurrent ==
    [][\A c \in Calls :
          (pc[c] = "idle" /\ pc'[c] = "returned"
             /\ fn'[c] = "get_environment_variable")
          => /\ environ' = environ
             /\ result'[c] =
                   IF args'[c][1].s \in DOMAIN environ
                   THEN PyStr(environ[args'[c][1].s])
                   ELSE args'[c][2]]_vars

\* Two lookups of the same variable with the same default, the first made
\* while it was unset and the second after it was set to the empty string.
C5_Witness ==
    /\ fn[1] = "get_environment_variable" /\ fn[2] = "get_environment_variable"
    /\ args[1] = <<PyStr("STAGE"), PyStr("fallback")>>
    /\ args[2] = args[1]
    /\ result[1] = PyStr("fallback")
    /\ result[2] = PyStr("")
    /\ "UNSET_NAME_X" \notin DOMAIN environ

\* C6: every started run of the batch job eventually commits, and no run
\* that has started and not yet finished is ever without a next step.
C6_RunCommits ==
    /\ \A r \in Runs : (jobPc[r] # "notstarted") ~> (commits[r] = 1)
    /\ [](\A r \in Runs :
             jobPc[r] \notin {"notstarted", "done"} => ENABLED JobRun(r))

C6_Witness ==
    \E r \in Runs : jobPc[r] = "done" /\ commits[r] = 1 /\ argv[r][3] = "nightly"

\* C7: every call of hello_world returns the literal greeting, whatever
\* was called or changed before it.
C7_HelloWorld ==
    \A c \in Calls : fn[c] = "hello_world" =>
        pc[c] = "returned" /\ result[c] = PyStr("Hello World from Common Utils!")

C7_Witness ==
    /\ fn[1] = "get_environment_variable" /\ result[1] = PyStr("dev")
    /\ fn[2] = "hello_world" /\ pc[2] = "returned"
    /\ DOMAIN environ = {}

\* C8: in both handlers the event is serialized and logged before the
\* envelope is built: an invocation that returned wrote exactly the
\* greeting and then the line with the serialized event; an invocation
\* whose event cannot be serialized never gets past the logging line, and
\* once faulted has written the greeting only and has no envelope.
C8_LogBeforeEnvelope ==
    \A c \in Calls : fn[c] \in Handlers =>
        /\ pc[c] = "returned" =>
              /\ stdout[c] = <<GreetingLine(fn[c]),
                               "Received event: " \o json_dumps(args[c][1])>>
              /\ result[c] # NoResult
              /\ args[c][1] = UploadEvent =>
                    stdout[c][2] = "Received event: {\"bucket\": \"x\", \"key\": \"y\"}"
              /\ args[c][1] = PyDict(<<>>) => stdout[c][2] = "Received event: {}"
        /\ result[c] # NoResult => Len(stdout[c]) = 2 /\ pc[c] = "returned"
        /\ ~JsonSerializable(args[c][1]) =>
              /\ pc[c] \in {"L12", "L13", "faulted"}
              /\ pc[c] = "L13" => ENABLED HandlerStep(c)
        /\ pc[c] = "faulted" =>
              /\ stdout[c] = <<GreetingLine(fn[c])>>
              /\ result[c] = NoResult
              /\ ~ENABLED HandlerStep(c)

C8_Witness ==
    /\ fn[1] = "release_lock.lambda_handler" /\ pc[1] = "faulted"
    /\ Len(stdout[1]) = 1
    /\ fn[2] = "s3_trigger.lambda_handler" /\ pc[2] = "returned"
    /\ Len(stdout[2]) = 2

\* C9: in every run the steps happen in the fixed order (arguments
\* resolved, job initialised with the job name, greeting line, job-name
\* line, commit); commit happens at most once and only after both lines,
\* and the job-name line carries the name given to initialisation.
C9_JobOrder ==
    \A r \in Runs :
        /\ commits[r] \in {0, 1}
        /\ commits[r] = 1 <=> jobPc[r] = "done"
        /\ commits[r] = 1 => Len(jobStdout[r]) = 2
        /\ Len(jobStdout[r]) <= 2
        /\ Len(jobStdout[r]) >= 1 =>
              /\ jobStdout[r][1] = "Hello World - Raw Ingestion Glue Job"
              /\ jobInit[r] # NoResult
        /\ jobInit[r] # NoResult =>
              /\ jobArgs[r] # NoResult
              /\ jobInit[r] = PyStr(argv[r][3])
        /\ jobArgs[r] # NoResult => jobPc[r] \notin {"notstarted", "L12"}
        /\ Len(jobStdout[r]) = 2 =>
              jobStdout[r][2] = "Job Name: " \o jobInit[r].s

C9_Witness ==
    /\ jobPc[1] = "done" /\ commits[1] = 1
    /\ jobStdout[1] = <<"Hello World - Raw Ingestion Glue Job",
                        "Job Name: raw-ingestion">>
    /\ jobPc[2] = "L22" /\ commits[2] = 0

\* C10 as stated: under any interleaving every handler invocation returns
\* its own fixed envelope, so none ends without one.
C10_Original ==
    \A c \in Calls : fn[c] \in Handlers =>
        /\ pc[c] \in {"L12", "L13", "L15", "returned"}
        /\ pc[c] = "returned" => result[c] = ExpectedEnvelope(fn[c])

\* C10 amended: under any interleaving of concurrent handler invocations
\* and utility calls, every handler invocation whose event can be
\* serialized returns its own fixed envelope and one whose event cannot
\* faults; a step of one call changes nothing of another call or of the
\* environment, and a call's event and context stay as passed in.
C10_Amended ==
    /\ [](\A c \in Calls : fn[c] \in Handlers =>
             /\ pc[c] = "returned" => result[c] = ExpectedEnvelope(fn[c])
             /\ pc[c] = "faulted" => ~JsonSerializable(args[c][1])
             /\ JsonSerializable(args[c][1]) /\ pc[c] # "returned"
                   => ENABLED HandlerStep(c))
    /\ [][\A c \in Calls :
             /\ pc[c] # "idle" => args'[c] = args[c] /\ fn'[c] = fn[c]
             /\ pc'[c] # pc[c] =>
                   /\ environ' = environ
                   /\ \A d \in Calls \ {c} :
                         /\ pc'[d] = pc[d]
                         /\ result'[d] = result[d]
                         /\ stdout'[d] = stdout[d]]_vars

C10_Witness ==
    /\ fn[1] = "release_lock.lambda_handler" /\ pc[1] = "returned"
    /\ fn[2] = "s3_trigger.lambda_handler" /\ pc[2] = "L13"
    /\ args[1][1] # args[2][1]

====
